---- MODULE Spec2Model ----
(***************************************************************************)
(* Role-based authorisation and status transitions of the operations       *)
(* backend (clients, contacts, quotations, tasks, expenses).               *)
(*                                                                         *)
(* Every HTTP handler of src/app/api/routers is one action.  A handler     *)
(* runs against the relational store; each table is a function from the    *)
(* primary key to the row.  The variable `last` records the request that   *)
(* was served last and the response it got, so that properties can speak   *)
(* about "after a successful/denied request".                              *)
(*                                                                         *)
(* Absent values: a NULL user id or timestamp is 0 (ids and the clock are  *)
(* positive), a NULL or empty text is the empty sequence, a JSON null in a *)
(* status field is the string "null".                                      *)
(*                                                                         *)
(* The tables of the routers are independent of one another, and each     *)
(* specification below sends requests to one group of handlers; `scope`   *)
(* names the group, so that SpecAll can run every group in turn.          *)
(***************************************************************************)
EXTENDS Integers, Sequences, FiniteSets, TLC

VARIABLES
    users,      \* users table: id -> [role, is_active]
    expenses,   \* expenses table: id -> row
    tasks,      \* tasks table: id -> row
    clients,    \* clients table: id -> row
    contacts,   \* contacts table: id -> row
    quotations, \* quotations table: id -> row
    reqs,       \* in-flight requests whose session has read but not committed
    now,        \* the clock read by func.now() / datetime.now(), in days
    last,       \* the last request served and its response
    scope       \* the group of handlers the observed run sends requests to

vars == <<users, expenses, tasks, clients, contacts, quotations, reqs, now, last, scope>>

(***************************************************************************)
(* Bounds of the model.                                                    *)
(***************************************************************************)
NumClients == 2         \* rows present in the clients table
MaxContacts == 3        \* contacts that can be created
MaxQuotations == 3      \* quotations that can be created
MaxInFlight == 2        \* requests that run at the same time
StartDay == 14          \* value of the clock at start (rows were created on day 0)
MaxNotesLen == 3        \* longest notes text that is built
ClockSpan == 1          \* days the clock advances during a run

(***************************************************************************)
(* Vocabulary.                                                             *)
(***************************************************************************)
NoUser == 0
NoTime == 0
NoId == 0
NoNotes == <<>>
Null == "null"

Roles == {"admin", "manager", "employee", "finance"}

ExpenseStatusEnum == {"submitted", "approved", "rejected", "reimbursed"}

\* HTTP responses raised by the handlers and their dependencies
Ok == [code |-> 200, detail |-> "ok"]
NotFound == [code |-> 404, detail |-> "not found"]
Forbidden == [code |-> 403, detail |-> "forbidden"]
NotEnoughPrivileges == [code |-> 403, detail |-> "not enough privileges"]
InactiveUser == [code |-> 400, detail |-> "inactive user"]
StateConflict == [code |-> 400, detail |-> "state conflict"]
ServerError == [code |-> 500, detail |-> "server error"]
ValidationError == [code |-> 422, detail |-> "validation error"]
Unauthorized == [code |-> 401, detail |-> "could not validate credentials"]
SelfDelete == [code |-> 400, detail |-> "cannot delete own account"]

NoRequest == [op |-> "none", actor |-> NoUser, id |-> NoId, arg |-> Null, res |-> Ok]

Served(op, actor, id, arg, res) ==
    [op |-> op, actor |-> actor, id |-> id, arg |-> arg, res |-> res]

(***************************************************************************)
(* Users and the role dependencies of app/core/deps.py.                    *)
(***************************************************************************)
\* The four demo users of the startup hook, a second employee and a
\* deactivated administrator.
SeededUsers ==
    (1 :> [role |-> "admin", is_active |-> TRUE]) @@
    (2 :> [role |-> "manager", is_active |-> TRUE]) @@
    (3 :> [role |-> "employee", is_active |-> TRUE]) @@
    (4 :> [role |-> "finance", is_active |-> TRUE]) @@
    (5 :> [role |-> "employee", is_active |-> TRUE]) @@
    (6 :> [role |-> "admin", is_active |-> FALSE])

\* get_current_user: the token names a user that is stored, or 401
get_current_user(u) ==
    IF u \notin DOMAIN users THEN Unauthorized ELSE Ok

\* the dependency with a deactivated administrator let through
get_current_active_user_AdminAlways(u) ==
    IF get_current_user(u) # Ok THEN get_current_user(u)
    ELSE IF ~users[u].is_active /\ users[u].role # "admin" THEN InactiveUser
    ELSE Ok

\* get_current_active_user: the response that stops the request, or Ok
get_current_active_user(u) ==
    IF get_current_user(u) # Ok THEN get_current_user(u)
    ELSE IF ~users[u].is_active THEN InactiveUser
    ELSE Ok

get_current_admin_user(u) ==
    IF get_current_active_user(u) # Ok THEN get_current_active_user(u)
    ELSE IF users[u].role # "admin" THEN NotEnoughPrivileges
    ELSE Ok

\* the manager-or-admin dependency with the finance role let through
get_current_manager_or_admin_user_finance(u) ==
    IF get_current_active_user(u) # Ok THEN get_current_active_user(u)
    ELSE IF users[u].role \notin {"admin", "manager", "finance"} THEN NotEnoughPrivileges
    ELSE Ok

get_current_manager_or_admin_user(u) ==
    IF get_current_active_user(u) # Ok THEN get_current_active_user(u)
    ELSE IF users[u].role \notin {"admin", "manager"} THEN NotEnoughPrivileges
    ELSE Ok

\* the finance dependency with the manager role let through
get_current_finance_admin_or_admin_user_manager(u) ==
    IF get_current_active_user(u) # Ok THEN get_current_active_user(u)
    ELSE IF users[u].role \notin {"admin", "finance", "manager"} THEN NotEnoughPrivileges
    ELSE Ok

get_current_finance_admin_or_admin_user(u) ==
    IF get_current_active_user(u) # Ok THEN get_current_active_user(u)
    ELSE IF users[u].role \notin {"admin", "finance"} THEN NotEnoughPrivileges
    ELSE Ok

(***************************************************************************)
(* Expenses (app/api/routers/finance.py).                                  *)
(***************************************************************************)
\* A row as the Expense model stores it right after its INSERT
ExpenseRow(submitter, created) ==
    [status |-> "submitted", submitter_id |-> submitter,
     approver_id |-> NoUser, approved_at |-> NoTime,
     reimburser_id |-> NoUser, reimbursed_at |-> NoTime,
     amount |-> 120, notes |-> NoNotes, created_at |-> created]

\* The rows the expenses table holds when the application starts: the table
\* is kept across restarts, and each row is one that was submitted on day 0.
ExpenseIds == {1}
SeededExpenses == [e \in ExpenseIds |-> ExpenseRow(3, 0)]

\* The ids requests name: the stored ones and one that resolves to nothing
ExpensePathIds == ExpenseIds \cup {2}

\* approval.notes put in the place of the notes of the expense
ApprovalNotes_Replace(old, new) ==
    IF new = NoNotes THEN old ELSE new

\* approval.notes appended to the notes of the expense
ApprovalNotes(old, new) ==
    IF new = NoNotes THEN old
    ELSE IF old = NoNotes THEN new
    ELSE old \o <<"\n\nApproval notes: ">> \o new

\* setattr(row, field, update_data[field]) for every field of update_data
ApplyUpdate(row, update_data) ==
    [f \in DOMAIN row |-> IF f \in DOMAIN update_data THEN update_data[f] ELSE row[f]]

Restrict(f, S) == [x \in S |-> f[x]]

\* Bodies of PUT /expenses/{id}: any subset of the fields, exclude_unset
ExpenseUpdates ==
    { Restrict(full, S) :
        full \in [status : ExpenseStatusEnum \cup {Null}],
        S \in SUBSET {"status"} }

\* POST /expenses/: the record is built and handed to db.delete, which
\* refuses an instance that was never persisted; nothing is inserted.
create_expense(u, client_id) ==
    LET res == IF get_current_active_user(u) # Ok THEN get_current_active_user(u)
               ELSE IF client_id # NoId /\ client_id \notin DOMAIN clients THEN NotFound
               ELSE ServerError
    IN /\ expenses' = expenses
       /\ last' = Served("create_expense", u, NoId, client_id, res)
       /\ UNCHANGED <<scope, users, tasks, clients, contacts, quotations, reqs, now>>

\* get_expense without the check of the submitter
GetExpenseResponse_AnyExpense(u, id) ==
    LET gate == get_current_active_user(u)
    IN IF gate # Ok THEN gate
       ELSE IF id \notin DOMAIN expenses THEN NotFound
       ELSE Ok

\* The checks of get_expense, in the order the request meets them
GetExpenseResponse(u, id) ==
    LET gate == get_current_active_user(u)
    IN IF gate # Ok THEN gate
       ELSE IF id \notin DOMAIN expenses THEN NotFound
       ELSE IF users[u].role = "employee" /\ expenses[id].submitter_id # u THEN Forbidden
       ELSE Ok

\* GET /expenses/{id}
get_expense(u, id) ==
    /\ last' = Served("get_expense", u, id, Null, GetExpenseResponse(u, id))
    /\ UNCHANGED <<scope, users, expenses, tasks, clients, contacts, quotations, reqs, now>>

\* The expenses the query of get_expenses selects for the actor, before the
\* filter on status and before the pagination
VisibleExpenses(u) ==
    IF users[u].role = "employee"
    THEN {e \in DOMAIN expenses : expenses[e].submitter_id = u}
    ELSE IF users[u].role = "manager"
         THEN {e \in DOMAIN expenses :
                  expenses[e].submitter_id = u \/ expenses[e].status = "submitted"}
    ELSE DOMAIN expenses

\* GET /expenses/
get_expenses(u) ==
    LET res == get_current_active_user(u)
    IN /\ last' = Served("get_expenses", u, NoId,
                         IF res = Ok THEN VisibleExpenses(u) ELSE {}, res)
       /\ UNCHANGED <<scope, users, expenses, tasks, clients, contacts, quotations, reqs, now>>

\* approve_expense without its check of the current status
ApproveResponse_AnyStatus(u, id) ==
    LET gate == get_current_manager_or_admin_user(u)
    IN IF gate # Ok THEN gate
       ELSE IF id \notin DOMAIN expenses THEN NotFound
       ELSE Ok

\* The checks of approve_expense, in the order the request meets them
ApproveResponse(u, id) ==
    LET gate == get_current_manager_or_admin_user(u)
    IN IF gate # Ok THEN gate
       ELSE IF id \notin DOMAIN expenses THEN NotFound
       ELSE IF expenses[id].status # "submitted" THEN StateConflict
       ELSE Ok

\* The row of approve_expense with the submitter recorded as the approver
Approved_BySubmitter(row, u, status, notes) ==
    [row EXCEPT !.status = status,
                !.approver_id = row.submitter_id,
                !.approved_at = now,
                !.notes = ApprovalNotes(@, notes)]

\* The row approve_expense leaves
Approved(row, u, status, notes) ==
    [row EXCEPT !.status = status,
                !.approver_id = u,
                !.approved_at = now,
                !.notes = ApprovalNotes(@, notes)]

\* POST /expenses/{id}/approve
approve_expense(u, id, status, notes) ==
    LET res == ApproveResponse(u, id)
    IN /\ res = Ok => Len(ApprovalNotes(expenses[id].notes, notes)) <= MaxNotesLen
       /\ expenses' = IF res = Ok
                      THEN [expenses EXCEPT ![id] = Approved(@, u, status, notes)]
                      ELSE expenses
       /\ last' = Served("approve_expense", u, id, status, res)
       /\ UNCHANGED <<scope, users, tasks, clients, contacts, quotations, reqs, now>>

\* POST /expenses/{id}/approve, up to the check of the status it has
\* loaded: the request is refused, or it holds its decision until its
\* session commits.
approve_expense_query(u, id, status, slot) ==
    LET res == ApproveResponse(u, id)
    IN /\ slot \notin {r.slot : r \in reqs}
       /\ IF res = Ok
          THEN /\ reqs' = reqs \cup {[slot |-> slot, op |-> "approve_expense",
                                      actor |-> u, id |-> id, status |-> status]}
               /\ last' = last
          ELSE /\ reqs' = reqs
               /\ last' = Served("approve_expense", u, id, status, res)
       /\ UNCHANGED <<scope, users, expenses, tasks, clients, contacts, quotations, now>>

\* POST /expenses/{id}/approve, the commit: the UPDATE of the row by its
\* primary key, whatever its status has become
approve_expense_commit(r) ==
    /\ r \in reqs
    /\ r.op = "approve_expense"
    /\ expenses' = [expenses EXCEPT ![r.id] = Approved(@, r.actor, r.status, NoNotes)]
    /\ reqs' = reqs \ {r}
    /\ last' = Served("approve_expense", r.actor, r.id, r.status, Ok)
    /\ UNCHANGED <<scope, users, tasks, clients, contacts, quotations, now>>

\* reimburse_expense with a status check that lets a reimbursed expense pass
ReimburseResponse_NotSubmitted(u, id) ==
    LET gate == get_current_finance_admin_or_admin_user(u)
    IN IF gate # Ok THEN gate
       ELSE IF id \notin DOMAIN expenses THEN NotFound
       ELSE IF expenses[id].status \in {"submitted", "rejected"} THEN StateConflict
       ELSE Ok

\* The checks of reimburse_expense, in the order the request meets them
ReimburseResponse(u, id) ==
    LET gate == get_current_finance_admin_or_admin_user(u)
    IN IF gate # Ok THEN gate
       ELSE IF id \notin DOMAIN expenses THEN NotFound
       ELSE IF expenses[id].status # "approved" THEN StateConflict
       ELSE Ok

\* The row of reimburse_expense with the approval stamp taken over by the
\* reimbursement
Reimbursed_OverApproval(row, u) ==
    [row EXCEPT !.status = "reimbursed",
                !.reimburser_id = u,
                !.reimbursed_at = now,
                !.approver_id = u]

\* The row reimburse_expense leaves
Reimbursed(row, u) ==
    [row EXCEPT !.status = "reimbursed",
                !.reimburser_id = u,
                !.reimbursed_at = now]

\* POST /expenses/{id}/reimburse
reimburse_expense(u, id) ==
    LET res == ReimburseResponse(u, id)
    IN /\ expenses' = IF res = Ok
                      THEN [expenses EXCEPT ![id] = Reimbursed(@, u)]
                      ELSE expenses
       /\ last' = Served("reimburse_expense", u, id, Null, res)
       /\ UNCHANGED <<scope, users, tasks, clients, contacts, quotations, reqs, now>>

\* The role rules of update_expense with the admin held to the statuses of a
\* manager
UpdateStatusGate_AdminAsManager(role, update_data) ==
    IF "status" \in DOMAIN update_data /\ role \in {"admin", "manager", "finance"}
    THEN IF role = "finance" /\ update_data.status # "reimbursed" THEN Forbidden
         ELSE IF role \in {"manager", "admin"}
                 /\ update_data.status \notin {"approved", "rejected"}
              THEN Forbidden
         ELSE Ok
    ELSE Ok

\* The role rules update_expense applies to a body that carries a status
UpdateStatusGate(role, update_data) ==
    IF "status" \in DOMAIN update_data /\ role \in {"admin", "manager", "finance"}
    THEN IF role = "finance" /\ update_data.status # "reimbursed" THEN Forbidden
         ELSE IF role = "manager" /\ update_data.status \notin {"approved", "rejected"}
              THEN Forbidden
         ELSE Ok
    ELSE Ok

\* The rules for an employee with the check of the status left out
EmployeeUpdateGate_AnyStatus(role, u, row) ==
    IF role = "employee" /\ row.submitter_id # u THEN Forbidden
    ELSE Ok

\* The rules update_expense applies to an employee: the expense is the
\* employee's own, and it is still submitted
EmployeeUpdateGate(role, u, row) ==
    IF role = "employee" /\ row.submitter_id # u THEN Forbidden
    ELSE IF role = "employee" /\ row.status # "submitted" THEN Forbidden
    ELSE Ok

\* The approval/reimbursement stamps update_expense sets before the fields
UpdateStamps(row, role, u, update_data) ==
    IF "status" \in DOMAIN update_data /\ role \in {"admin", "manager", "finance"}
    THEN IF update_data.status = "approved"
         THEN [row EXCEPT !.approver_id = u, !.approved_at = now]
         ELSE IF update_data.status = "reimbursed"
              THEN [row EXCEPT !.reimburser_id = u, !.reimbursed_at = now]
         ELSE row
    ELSE row

\* The status a body asks for, "unset" when it carries none
RequestedStatus(update_data) ==
    IF "status" \in DOMAIN update_data THEN update_data.status ELSE "unset"

\* update_expense with the fields written before the role rules are applied
update_expense_WriteFirst(u, id, update_data) ==
    LET role == users[u].role
        gate == get_current_active_user(u)
        res == IF gate # Ok THEN gate
               ELSE IF id \notin DOMAIN expenses THEN NotFound
               ELSE IF EmployeeUpdateGate(role, u, expenses[id]) # Ok
                    THEN EmployeeUpdateGate(role, u, expenses[id])
               ELSE IF UpdateStatusGate(role, update_data) # Ok
                    THEN UpdateStatusGate(role, update_data)
               ELSE IF "status" \in DOMAIN update_data /\ update_data.status = Null
                    THEN ServerError
               ELSE Ok
    IN /\ expenses' = IF res = Ok \/ (res = Forbidden /\ role # "employee")
                      THEN [expenses EXCEPT ![id] =
                               ApplyUpdate(UpdateStamps(@, role, u, update_data), update_data)]
                      ELSE expenses
       /\ last' = Served("update_expense", u, id, RequestedStatus(update_data), res)
       /\ UNCHANGED <<scope, users, tasks, clients, contacts, quotations, reqs, now>>

\* PUT /expenses/{id}
update_expense(u, id, update_data) ==
    LET role == users[u].role
        gate == get_current_active_user(u)
        res == IF gate # Ok THEN gate
               ELSE IF id \notin DOMAIN expenses THEN NotFound
               ELSE IF EmployeeUpdateGate(role, u, expenses[id]) # Ok
                    THEN EmployeeUpdateGate(role, u, expenses[id])
               ELSE IF UpdateStatusGate(role, update_data) # Ok
                    THEN UpdateStatusGate(role, update_data)
               \* status is NOT NULL: the commit of a null status fails
               ELSE IF "status" \in DOMAIN update_data /\ update_data.status = Null
                    THEN ServerError
               ELSE Ok
    IN /\ expenses' = IF res = Ok
                      THEN [expenses EXCEPT ![id] =
                               ApplyUpdate(UpdateStamps(@, role, u, update_data), update_data)]
                      ELSE expenses
       /\ last' = Served("update_expense", u, id, RequestedStatus(update_data), res)
       /\ UNCHANGED <<scope, users, tasks, clients, contacts, quotations, reqs, now>>

\* timedelta(days=14)
DeleteAgeDays == 14

\* The checks of delete_expense with the age limit of the finance actors
\* taken up to and including the fourteenth day
DeleteExpenseGate_Inclusive(u, row) ==
    LET role == users[u].role
    IN IF role = "employee"
       THEN IF row.submitter_id # u THEN Forbidden
            ELSE IF row.status # "submitted" THEN Forbidden
            ELSE Ok
       ELSE IF role = "manager"
            THEN IF row.status = "reimbursed" THEN Forbidden ELSE Ok
       ELSE IF role = "finance"
            THEN IF row.created_at >= now - DeleteAgeDays THEN Forbidden ELSE Ok
       ELSE Ok

\* The authorisation checks of DELETE /expenses/{id}
DeleteExpenseGate(u, row) ==
    LET role == users[u].role
    IN IF role = "employee"
       THEN IF row.submitter_id # u THEN Forbidden
            ELSE IF row.status # "submitted" THEN Forbidden
            ELSE Ok
       ELSE IF role = "manager"
            THEN IF row.status = "reimbursed" THEN Forbidden ELSE Ok
       ELSE IF role = "finance"
            THEN IF row.created_at > now - DeleteAgeDays THEN Forbidden ELSE Ok
       ELSE Ok

\* DELETE /expenses/{id}: the handler ends after its checks, without a
\* db.delete and without a return value; the response built from None is
\* a 200 or a response-validation 500 depending on the framework version.
delete_expense(u, id, passed) ==
    LET gate == get_current_active_user(u)
        res == IF gate # Ok THEN gate
               ELSE IF id \notin DOMAIN expenses THEN NotFound
               ELSE IF DeleteExpenseGate(u, expenses[id]) # Ok
                    THEN DeleteExpenseGate(u, expenses[id])
               ELSE passed
    IN /\ expenses' = expenses
       /\ last' = Served("delete_expense", u, id, Null, res)
       /\ UNCHANGED <<scope, users, tasks, clients, contacts, quotations, reqs, now>>

(***************************************************************************)
(* Tasks (app/api/routers/tasks.py).                                       *)
(***************************************************************************)
TaskStatusEnum == {"pending", "in_progress", "completed"}

\* A row as the Task model stores it right after its INSERT
TaskRow(owner, assignee) ==
    [status |-> "pending", completion_percentage |-> 0,
     owner_id |-> owner, assignee_id |-> assignee, completed_at |-> NoTime]

TaskIds == {1}
TaskPathIds == TaskIds \cup {2}

\* The primary key the store gives the next row of a table
NextId(table) ==
    IF DOMAIN table = {} THEN 1
    ELSE (CHOOSE m \in DOMAIN table : \A k \in DOMAIN table : k <= m) + 1

\* Insert and delete of a row
Insert(table, id, row) == [k \in DOMAIN table \cup {id} |-> IF k = id THEN row ELSE table[k]]
Delete(table, id) == [k \in DOMAIN table \ {id} |-> table[k]]

\* Bodies of PUT /tasks/{id}, exclude_unset
TaskUpdates ==
    { Restrict(full, S) :
        full \in [status : TaskStatusEnum, completion_percentage : {50, 100},
                  assignee_id : {3, 5, 9}],
        S \in {{}, {"status"}, {"completion_percentage"}, {"assignee_id"},
               {"status", "completion_percentage"}} }

\* POST /tasks/
create_task(u, assignee_id, client_id) ==
    LET gate == get_current_active_user(u)
        res == IF gate # Ok THEN gate
               ELSE IF client_id # NoId /\ client_id \notin DOMAIN clients THEN NotFound
               ELSE IF assignee_id # NoUser /\ assignee_id \notin DOMAIN users THEN NotFound
               ELSE IF assignee_id # NoUser /\ users[u].role = "employee" /\ assignee_id # u
                    THEN Forbidden
               ELSE Ok
        id == NextId(tasks)
    IN /\ res = Ok => id \in TaskIds
       /\ tasks' = IF res = Ok THEN Insert(tasks, id, TaskRow(u, assignee_id)) ELSE tasks
       /\ last' = Served("create_task", u, IF res = Ok THEN id ELSE NoId, assignee_id, res)
       /\ UNCHANGED <<scope, users, expenses, clients, contacts, quotations, reqs, now>>

\* get_task without the check of the owner and the assignee
GetTaskResponse_AnyTask(u, id) ==
    LET gate == get_current_active_user(u)
    IN IF gate # Ok THEN gate
       ELSE IF id \notin DOMAIN tasks THEN NotFound
       ELSE Ok

\* The checks of get_task, in the order the request meets them
GetTaskResponse(u, id) ==
    LET gate == get_current_active_user(u)
    IN IF gate # Ok THEN gate
       ELSE IF id \notin DOMAIN tasks THEN NotFound
       ELSE IF users[u].role = "employee" /\ tasks[id].owner_id # u
               /\ tasks[id].assignee_id # u
            THEN Forbidden
       ELSE Ok

\* GET /tasks/{id}
get_task(u, id) ==
    /\ last' = Served("get_task", u, id, Null, GetTaskResponse(u, id))
    /\ UNCHANGED <<scope, users, expenses, tasks, clients, contacts, quotations, reqs, now>>

\* The tasks the query of get_tasks selects for the actor, before the
\* filters on status, priority and due date and before the pagination
VisibleTasks(u, assigned_to_me) ==
    IF users[u].role = "employee"
    THEN IF assigned_to_me
         THEN {t \in DOMAIN tasks : tasks[t].assignee_id = u}
         ELSE {t \in DOMAIN tasks : tasks[t].owner_id = u \/ tasks[t].assignee_id = u}
    ELSE IF users[u].role = "manager" /\ assigned_to_me
         THEN {t \in DOMAIN tasks : tasks[t].assignee_id = u}
    ELSE DOMAIN tasks

\* GET /tasks/
get_tasks(u, assigned_to_me) ==
    LET res == get_current_active_user(u)
    IN /\ last' = Served("get_tasks", u, NoId,
                         [assigned_to_me |-> assigned_to_me,
                          result |-> IF res = Ok THEN VisibleTasks(u, assigned_to_me) ELSE {}],
                         res)
       /\ UNCHANGED <<scope, users, expenses, tasks, clients, contacts, quotations, reqs, now>>

\* The completed_at stamp update_task sets before it applies the fields
UpdateTaskStamp(row, update_data) ==
    IF "status" \in DOMAIN update_data /\ update_data.status = "completed"
       /\ row.status # "completed"
    THEN [row EXCEPT !.completed_at = now]
    ELSE row

\* PUT /tasks/{id}
update_task(u, id, update_data) ==
    LET role == users[u].role
        gate == get_current_active_user(u)
        has_assignee == "assignee_id" \in DOMAIN update_data
        res == IF gate # Ok THEN gate
               ELSE IF id \notin DOMAIN tasks THEN NotFound
               ELSE IF role = "employee" /\ tasks[id].owner_id # u /\ tasks[id].assignee_id # u
                    THEN Forbidden
               ELSE IF has_assignee /\ role = "employee" /\ update_data.assignee_id # u
                    THEN Forbidden
               ELSE IF has_assignee /\ update_data.assignee_id \notin DOMAIN users
                    THEN NotFound
               ELSE Ok
    IN /\ tasks' = IF res = Ok
                   THEN [tasks EXCEPT ![id] =
                            ApplyUpdate(UpdateTaskStamp(@, update_data), update_data)]
                   ELSE tasks
       /\ last' = Served("update_task", u, id,
                          IF has_assignee THEN update_data.assignee_id ELSE NoUser, res)
       /\ UNCHANGED <<scope, users, expenses, clients, contacts, quotations, reqs, now>>

\* delete_task with the assignee taken for the owner
DeleteTaskResponse_Assignee(u, id) ==
    LET gate == get_current_active_user(u)
    IN IF gate # Ok THEN gate
       ELSE IF id \notin DOMAIN tasks THEN NotFound
       ELSE IF users[u].role = "employee" /\ tasks[id].assignee_id # u THEN Forbidden
       ELSE Ok

\* The checks of delete_task, in the order the request meets them
DeleteTaskResponse(u, id) ==
    LET gate == get_current_active_user(u)
    IN IF gate # Ok THEN gate
       ELSE IF id \notin DOMAIN tasks THEN NotFound
       ELSE IF users[u].role = "employee" /\ tasks[id].owner_id # u THEN Forbidden
       ELSE Ok

\* DELETE /tasks/{id}
delete_task(u, id) ==
    LET res == DeleteTaskResponse(u, id)
    IN /\ tasks' = IF res = Ok THEN Delete(tasks, id) ELSE tasks
       /\ last' = Served("delete_task", u, id, Null, res)
       /\ UNCHANGED <<scope, users, expenses, clients, contacts, quotations, reqs, now>>

\* The row complete_task leaves
Completed(row, completion_percentage) ==
    IF completion_percentage = 100
    THEN [row EXCEPT !.completion_percentage = completion_percentage,
                     !.status = "completed", !.completed_at = now]
    ELSE IF row.status = "completed" /\ completion_percentage < 100
         THEN [row EXCEPT !.completion_percentage = completion_percentage,
                          !.status = "in_progress", !.completed_at = NoTime]
    ELSE [row EXCEPT !.completion_percentage = completion_percentage]

\* POST /tasks/{id}/complete
complete_task(u, id, completion_percentage) ==
    LET gate == get_current_active_user(u)
        res == IF gate # Ok THEN gate
               \* Query(100, ge=0, le=100)
               ELSE IF completion_percentage \notin 0..100 THEN ValidationError
               ELSE IF id \notin DOMAIN tasks THEN NotFound
               ELSE IF users[u].role = "employee" /\ tasks[id].owner_id # u
                       /\ tasks[id].assignee_id # u
                    THEN Forbidden
               ELSE Ok
    IN /\ tasks' = IF res = Ok
                   THEN [tasks EXCEPT ![id] = Completed(@, completion_percentage)]
                   ELSE tasks
       /\ last' = Served("complete_task", u, id, Null, res)
       /\ UNCHANGED <<scope, users, expenses, clients, contacts, quotations, reqs, now>>

\* assign_task without the rule that an employee assigns to themselves only
AssignTaskResponse_AnyAssignee(u, id, assignee_id) ==
    LET gate == get_current_active_user(u)
    IN IF gate # Ok THEN gate
       ELSE IF id \notin DOMAIN tasks THEN NotFound
       ELSE IF users[u].role = "employee" /\ tasks[id].owner_id # u THEN Forbidden
       ELSE IF assignee_id \notin DOMAIN users THEN NotFound
       ELSE Ok

\* The checks of assign_task, in the order the request meets them
AssignTaskResponse(u, id, assignee_id) ==
    LET gate == get_current_active_user(u)
    IN IF gate # Ok THEN gate
       ELSE IF id \notin DOMAIN tasks THEN NotFound
       ELSE IF users[u].role = "employee" /\ tasks[id].owner_id # u THEN Forbidden
       ELSE IF users[u].role = "employee" /\ assignee_id # u THEN Forbidden
       ELSE IF assignee_id \notin DOMAIN users THEN NotFound
       ELSE Ok

\* POST /tasks/{id}/assign
assign_task(u, id, assignee_id) ==
    LET res == AssignTaskResponse(u, id, assignee_id)
    IN /\ tasks' = IF res = Ok
                   THEN [tasks EXCEPT ![id] =
                            [@ EXCEPT !.assignee_id = assignee_id,
                                      !.status = IF @ = "pending" THEN "in_progress" ELSE @]]
                   ELSE tasks
       /\ last' = Served("assign_task", u, id, assignee_id, res)
       /\ UNCHANGED <<scope, users, expenses, clients, contacts, quotations, reqs, now>>

(***************************************************************************)
(* Clients, contacts and quotations (app/api/routers/clients.py).          *)
(***************************************************************************)
\* A row as the Client model stores it right after its INSERT
ClientRow(status) == [status |-> status, onboarded_at |-> NoTime]

\* Clients created earlier through POST /clients/ with the default status
SeededClients == [c \in 1..NumClients |-> ClientRow("pending")]

ClientStatusEnum == {"active", "pending", "inactive"}

\* Bodies of PUT /clients/{client_id}, exclude_unset
ClientUpdates == {<<>>} \cup {[status |-> st] : st \in ClientStatusEnum}

\* The onboarded_at stamp update_client sets before it applies the fields
UpdateClientStamp(row, update_data) ==
    IF "status" \in DOMAIN update_data /\ update_data.status = "active"
       /\ row.status # "active"
    THEN [row EXCEPT !.onboarded_at = now]
    ELSE row

\* PUT /clients/{client_id}
update_client(u, client_id, update_data) ==
    LET gate == get_current_manager_or_admin_user(u)
        res == IF gate # Ok THEN gate
               ELSE IF client_id \notin DOMAIN clients THEN NotFound
               ELSE Ok
    IN /\ clients' = IF res = Ok
                     THEN [clients EXCEPT ![client_id] =
                              ApplyUpdate(UpdateClientStamp(@, update_data), update_data)]
                     ELSE clients
       /\ last' = Served("update_client", u, client_id, RequestedStatus(update_data), res)
       /\ UNCHANGED <<scope, users, expenses, tasks, contacts, quotations, reqs, now>>

\* POST /clients/; the body carries the status, pending when left out
create_client(u, status) ==
    LET res == get_current_manager_or_admin_user(u)
        id == NextId(clients)
    IN /\ res = Ok => id <= NumClients + 1
       /\ clients' = IF res = Ok THEN Insert(clients, id, ClientRow(status)) ELSE clients
       /\ last' = Served("create_client", u, IF res = Ok THEN id ELSE NoId, status, res)
       /\ UNCHANGED <<scope, users, expenses, tasks, contacts, quotations, reqs, now>>

\* A table of children of clients with the rows of one client left where
\* they are
WithoutClient_NoCascade(table, client_id) == table

\* cascade="all, delete-orphan": the rows of a table of children of clients
\* that are left when the unit of work has deleted those of one client
WithoutClient(table, client_id) ==
    [k \in {j \in DOMAIN table : table[j].client_id # client_id} |-> table[k]]

\* DELETE /clients/{client_id}
delete_client(u, client_id) ==
    LET gate == get_current_manager_or_admin_user(u)
        res == IF gate # Ok THEN gate
               ELSE IF client_id \notin DOMAIN clients THEN NotFound
               ELSE Ok
    IN /\ clients' = IF res = Ok THEN Delete(clients, client_id) ELSE clients
       /\ contacts' = IF res = Ok THEN WithoutClient(contacts, client_id) ELSE contacts
       /\ quotations' = IF res = Ok THEN WithoutClient(quotations, client_id)
                         ELSE quotations
       /\ last' = Served("delete_client", u, client_id, Null, res)
       /\ UNCHANGED <<scope, users, expenses, tasks, reqs, now>>

\* A day passes on the clock func.now() reads
Tick ==
    /\ now < StartDay + ClockSpan
    /\ now' = now + 1
    /\ UNCHANGED <<scope, users, expenses, tasks, clients, contacts, quotations, reqs, last>>

\* A row of the contacts table
ContactRow(client_id, is_primary) == [client_id |-> client_id, is_primary |-> is_primary]

\* The outcomes of the query for the existing primary contact of a client,
\* other than contact `except`: .first() of an unordered query returns any
\* matching row, NoId stands for None
ExistingPrimary(client_id, except) ==
    LET found == {k \in DOMAIN contacts :
                     /\ contacts[k].client_id = client_id
                     /\ contacts[k].is_primary
                     /\ k # except}
    IN IF found = {} THEN {NoId} ELSE found

\* existing_primary.is_primary = False, when there is one
Demote(table, existing_primary) ==
    IF existing_primary = NoId THEN table
    ELSE [table EXCEPT ![existing_primary].is_primary = FALSE]

\* POST /clients/{client_id}/contacts; the body carries its own client_id
create_client_contact(u, client_id, body_client_id, is_primary) ==
    LET gate == get_current_active_user(u)
        res == IF gate # Ok THEN gate
               ELSE IF client_id \notin DOMAIN clients THEN NotFound
               ELSE Ok
        id == NextId(contacts)
    IN /\ res = Ok => id <= MaxContacts
       /\ IF res = Ok
          THEN \E existing_primary \in
                     (IF is_primary THEN ExistingPrimary(client_id, NoId) ELSE {NoId}) :
                  contacts' = Insert(Demote(contacts, existing_primary), id,
                                     ContactRow(body_client_id, is_primary))
          ELSE contacts' = contacts
       /\ last' = Served("create_client_contact", u, IF res = Ok THEN id ELSE NoId,
                         client_id, res)
       /\ UNCHANGED <<scope, users, expenses, tasks, clients, quotations, reqs, now>>

\* Bodies of PUT /clients/{client_id}/contacts/{contact_id}, exclude_unset
ContactUpdates == {<<>>, [is_primary |-> TRUE], [is_primary |-> FALSE]}

\* PUT /clients/{client_id}/contacts/{contact_id}
update_client_contact(u, client_id, contact_id, update_data) ==
    LET gate == get_current_active_user(u)
        res == IF gate # Ok THEN gate
               ELSE IF contact_id \notin DOMAIN contacts THEN NotFound
               ELSE IF contacts[contact_id].client_id # client_id THEN NotFound
               ELSE Ok
    IN /\ IF res = Ok
          THEN \E existing_primary \in
                     (IF /\ "is_primary" \in DOMAIN update_data
                         /\ update_data.is_primary = TRUE
                         /\ ~contacts[contact_id].is_primary
                      THEN ExistingPrimary(client_id, contact_id) ELSE {NoId}) :
                  contacts' = [Demote(contacts, existing_primary) EXCEPT
                                  ![contact_id] = ApplyUpdate(@, update_data)]
          ELSE contacts' = contacts
       /\ last' = Served("update_client_contact", u, contact_id, client_id, res)
       /\ UNCHANGED <<scope, users, expenses, tasks, clients, quotations, reqs, now>>

\* DELETE /clients/{client_id}/contacts/{contact_id}
delete_client_contact(u, client_id, contact_id) ==
    LET gate == get_current_active_user(u)
        res == IF gate # Ok THEN gate
               ELSE IF contact_id \notin DOMAIN contacts THEN NotFound
               ELSE IF contacts[contact_id].client_id # client_id THEN NotFound
               ELSE Ok
    IN /\ contacts' = IF res = Ok THEN Delete(contacts, contact_id) ELSE contacts
       /\ last' = Served("delete_client_contact", u, contact_id, client_id, res)
       /\ UNCHANGED <<scope, users, expenses, tasks, clients, quotations, reqs, now>>

\* The slots of the requests that are running
FreeSlots == (1..MaxInFlight) \ {r.slot : r \in reqs}

\* The contact rows that requests in flight are about to insert
PendingContacts == Cardinality({r \in reqs : r.op = "create_client_contact"})

\* POST /clients/{client_id}/contacts, up to the query for the existing
\* primary contact: the request is refused, or it holds what it has read
\* until its session commits.
create_client_contact_query(u, client_id, body_client_id, is_primary) ==
    LET gate == get_current_active_user(u)
        res == IF gate # Ok THEN gate
               ELSE IF client_id \notin DOMAIN clients THEN NotFound
               ELSE Ok
    IN /\ FreeSlots # {}
       /\ res = Ok => NextId(contacts) + PendingContacts <= MaxContacts
       /\ IF res = Ok
          THEN /\ \E existing_primary \in
                        (IF is_primary THEN ExistingPrimary(client_id, NoId) ELSE {NoId}) :
                     reqs' = reqs \cup
                        {[slot |-> CHOOSE n \in FreeSlots : \A m \in FreeSlots : n <= m,
                          op |-> "create_client_contact", actor |-> u,
                          client_id |-> client_id, contact_id |-> NoId,
                          row |-> ContactRow(body_client_id, is_primary),
                          update_data |-> <<>>,
                          existing_primary |-> existing_primary]}
               /\ last' = last
          ELSE /\ reqs' = reqs
               /\ last' = Served("create_client_contact", u, NoId, client_id, res)
       /\ UNCHANGED <<scope, users, expenses, tasks, clients, contacts, quotations, now>>

\* POST /clients/{client_id}/contacts, the commit: the UPDATE of the
\* primary contact that was read and the INSERT of the new row.
create_client_contact_commit(r) ==
    LET id == NextId(contacts)
    IN /\ r \in reqs
       /\ r.op = "create_client_contact"
       /\ contacts' = Insert(Demote(contacts, r.existing_primary), id, r.row)
       /\ reqs' = reqs \ {r}
       /\ last' = Served("create_client_contact", r.actor, id, r.client_id, Ok)
       /\ UNCHANGED <<scope, users, expenses, tasks, clients, quotations, now>>

\* PUT /clients/{client_id}/contacts/{contact_id}, up to the query for the
\* existing primary contact; the request holds the row it has loaded.
update_client_contact_query(u, client_id, contact_id, update_data) ==
    LET gate == get_current_active_user(u)
        res == IF gate # Ok THEN gate
               ELSE IF contact_id \notin DOMAIN contacts THEN NotFound
               ELSE IF contacts[contact_id].client_id # client_id THEN NotFound
               ELSE Ok
    IN /\ FreeSlots # {}
       /\ IF res = Ok
          THEN /\ \E existing_primary \in
                        (IF /\ "is_primary" \in DOMAIN update_data
                            /\ update_data.is_primary = TRUE
                            /\ ~contacts[contact_id].is_primary
                         THEN ExistingPrimary(client_id, contact_id) ELSE {NoId}) :
                     reqs' = reqs \cup
                        {[slot |-> CHOOSE n \in FreeSlots : \A m \in FreeSlots : n <= m,
                          op |-> "update_client_contact", actor |-> u,
                          client_id |-> client_id, contact_id |-> contact_id,
                          row |-> contacts[contact_id],
                          update_data |-> update_data,
                          existing_primary |-> existing_primary]}
               /\ last' = last
          ELSE /\ reqs' = reqs
               /\ last' = Served("update_client_contact", u, contact_id, client_id, res)
       /\ UNCHANGED <<scope, users, expenses, tasks, clients, contacts, quotations, now>>

\* The fields the unit of work writes at the flush: those whose value was
\* set to something else than the value loaded.
ChangedFields(row, update_data) ==
    Restrict(update_data, {f \in DOMAIN update_data : update_data[f] # row[f]})

\* PUT /clients/{client_id}/contacts/{contact_id}, the commit: the UPDATE
\* of the primary contact that was read and the UPDATE of the contact.
update_client_contact_commit(r) ==
    /\ r \in reqs
    /\ r.op = "update_client_contact"
    /\ contacts' = [Demote(contacts, r.existing_primary) EXCEPT
                       ![r.contact_id] = ApplyUpdate(@, ChangedFields(r.row, r.update_data))]
    /\ reqs' = reqs \ {r}
    /\ last' = Served("update_client_contact", r.actor, r.contact_id, r.client_id, Ok)
    /\ UNCHANGED <<scope, users, expenses, tasks, clients, quotations, now>>

\* A row of the quotations table
QuotationRow(client_id, version) ==
    [client_id |-> client_id, version |-> version, status |-> "draft", sent_at |-> NoTime]

QuotationStatusEnum == {"draft", "sent", "accepted", "rejected"}

\* The quotations table after a first quotation was created for client 1
QuotationIds == {1}
SeededQuotations == [q \in QuotationIds |-> QuotationRow(1, 1)]

\* The body of a quotation request read with every key kept
QuotationSchema_ExtraKept(body, fields) == body

\* A quotation schema reads a JSON body: the keys it declares are kept, every
\* other key is ignored
QuotationSchema(body, fields) == Restrict(body, DOMAIN body \cap fields)

\* QuotationCreate and QuotationUpdate: neither declares version
QuotationCreate(body) == QuotationSchema(body, {"client_id", "html_content", "status"})
QuotationUpdate(body) == QuotationSchema(body, {"html_content", "status"})

\* Bodies of PUT /clients/{client_id}/quotations/{quotation_id}, exclude_unset
QuotationUpdates == {<<>>} \cup {[status |-> st] : st \in QuotationStatusEnum}

\* The sent_at stamp update_client_quotation sets before it applies the fields
UpdateQuotationStamp(row, update_data) ==
    IF "status" \in DOMAIN update_data /\ update_data.status = "sent"
       /\ row.status # "sent"
    THEN [row EXCEPT !.sent_at = now]
    ELSE row

\* PUT /clients/{client_id}/quotations/{quotation_id}
update_client_quotation(u, client_id, quotation_id, update_data) ==
    LET gate == get_current_manager_or_admin_user(u)
        res == IF gate # Ok THEN gate
               ELSE IF quotation_id \notin DOMAIN quotations THEN NotFound
               ELSE IF quotations[quotation_id].client_id # client_id THEN NotFound
               ELSE Ok
    IN /\ quotations' = IF res = Ok
                        THEN [quotations EXCEPT ![quotation_id] =
                                 ApplyUpdate(UpdateQuotationStamp(@, update_data), update_data)]
                        ELSE quotations
       /\ last' = Served("update_client_quotation", u, quotation_id,
                         RequestedStatus(update_data), res)
       /\ UNCHANGED <<scope, users, expenses, tasks, clients, contacts, reqs, now>>

\* db.query(func.max(Quotation.version)).filter(client_id == ...).scalar() or 0
LatestVersion(client_id) ==
    LET versions == {quotations[q].version :
                        q \in {k \in DOMAIN quotations : quotations[k].client_id = client_id}}
    IN IF versions = {} THEN 0
       ELSE CHOOSE m \in versions : \A v \in versions : v <= m

\* POST /clients/{client_id}/quotations, with no other request between its
\* query for the latest version and its commit
create_client_quotation(u, client_id, body_client_id) ==
    LET gate == get_current_manager_or_admin_user(u)
        res == IF gate # Ok THEN gate
               ELSE IF client_id \notin DOMAIN clients THEN NotFound
               ELSE Ok
        id == NextId(quotations)
    IN /\ res = Ok => id <= MaxQuotations
       /\ quotations' = IF res = Ok
                        THEN Insert(quotations, id,
                                    QuotationRow(body_client_id, LatestVersion(client_id) + 1))
                        ELSE quotations
       /\ last' = Served("create_client_quotation", u, IF res = Ok THEN id ELSE NoId,
                         client_id, res)
       /\ UNCHANGED <<scope, users, expenses, tasks, clients, contacts, reqs, now>>

\* POST /clients/{client_id}/quotations, up to the query for the latest
\* version: the request is refused, or it holds the version it has read
\* until its session commits.
create_client_quotation_query(u, client_id, body_client_id) ==
    LET gate == get_current_manager_or_admin_user(u)
        res == IF gate # Ok THEN gate
               ELSE IF client_id \notin DOMAIN clients THEN NotFound
               ELSE Ok
    IN /\ FreeSlots # {}
       /\ res = Ok => NextId(quotations) + Cardinality(reqs) <= MaxQuotations
       /\ IF res = Ok
          THEN /\ reqs' = reqs \cup
                     {[slot |-> CHOOSE n \in FreeSlots : \A m \in FreeSlots : n <= m,
                       actor |-> u, client_id |-> client_id,
                       body_client_id |-> body_client_id,
                       latest_version |-> LatestVersion(client_id)]}
               /\ last' = last
          ELSE /\ reqs' = reqs
               /\ last' = Served("create_client_quotation", u, NoId, client_id, res)
       /\ UNCHANGED <<scope, users, expenses, tasks, clients, contacts, quotations, now>>

\* POST /clients/{client_id}/quotations, from the construction of the row
\* to the commit: the row gets the version read earlier plus one.
create_client_quotation_commit(r) ==
    LET id == NextId(quotations)
    IN /\ r \in reqs
       /\ quotations' = Insert(quotations, id,
                               QuotationRow(r.body_client_id, r.latest_version + 1))
       /\ reqs' = reqs \ {r}
       /\ last' = Served("create_client_quotation", r.actor, id, r.client_id, Ok)
       /\ UNCHANGED <<scope, users, expenses, tasks, clients, contacts, now>>

(***************************************************************************)
(* Users (app/api/routers/users.py).                                       *)
(***************************************************************************)
\* Bodies of PUT /users/me and PUT /users/{user_id}, exclude_unset
UserUpdates ==
    {<<>>} \cup {[role |-> r] : r \in Roles} \cup {[is_active |-> b] : b \in BOOLEAN}

\* PUT /users/me
update_user_me(u, update_data) ==
    LET res == get_current_active_user(u)
    IN /\ users' = IF res = Ok
                   THEN [users EXCEPT ![u] = ApplyUpdate(@, update_data)]
                   ELSE users
       /\ last' = Served("update_user_me", u, u, update_data, res)
       /\ UNCHANGED <<scope, expenses, tasks, clients, contacts, quotations, reqs, now>>

\* GET /users/{user_id}
get_user_by_id(u, user_id) ==
    LET gate == get_current_active_user(u)
        res == IF gate # Ok THEN gate
               ELSE IF users[u].role # "admin" /\ u # user_id THEN NotEnoughPrivileges
               ELSE IF user_id \notin DOMAIN users THEN NotFound
               ELSE Ok
    IN /\ last' = Served("get_user_by_id", u, user_id, Null, res)
       /\ UNCHANGED <<scope, users, expenses, tasks, clients, contacts, quotations,
                      reqs, now>>

\* PUT /users/{user_id}
update_user(u, user_id, update_data) ==
    LET gate == get_current_admin_user(u)
        res == IF gate # Ok THEN gate
               ELSE IF user_id \notin DOMAIN users THEN NotFound
               ELSE Ok
    IN /\ users' = IF res = Ok
                   THEN [users EXCEPT ![user_id] = ApplyUpdate(@, update_data)]
                   ELSE users
       /\ last' = Served("update_user", u, user_id, update_data, res)
       /\ UNCHANGED <<scope, expenses, tasks, clients, contacts, quotations, reqs, now>>

\* DELETE /users/{user_id} without the check of the caller's own account
DeleteUserResponse_SelfAllowed(u, user_id) ==
    LET gate == get_current_admin_user(u)
    IN IF gate # Ok THEN gate
       ELSE IF user_id \notin DOMAIN users THEN NotFound
       ELSE Ok

\* The response of DELETE /users/{user_id}
DeleteUserResponse(u, user_id) ==
    LET gate == get_current_admin_user(u)
    IN IF gate # Ok THEN gate
       ELSE IF user_id \notin DOMAIN users THEN NotFound
       ELSE IF user_id = u THEN SelfDelete
       ELSE Ok

\* DELETE /users/{user_id}
delete_user(u, user_id) ==
    LET res == DeleteUserResponse(u, user_id)
    IN /\ users' = IF res = Ok THEN Delete(users, user_id) ELSE users
       /\ last' = Served("delete_user", u, user_id, Null, res)
       /\ UNCHANGED <<scope, expenses, tasks, clients, contacts, quotations, reqs, now>>

(***************************************************************************)
(* Specifications.                                                         *)
(***************************************************************************)
Actors == DOMAIN SeededUsers

\* --- expenses ---
InitExpense ==
    /\ users = SeededUsers
    /\ expenses = SeededExpenses
    /\ tasks = <<>>
    /\ clients = SeededClients
    /\ contacts = <<>>
    /\ quotations = <<>>
    /\ reqs = {}
    /\ now = StartDay
    /\ last = NoRequest
    /\ scope = "expenses"

NextExpense ==
    \/ \E u \in Actors, c \in {NoId, 1, NumClients + 1} : create_expense(u, c)
    \/ \E u \in Actors, id \in ExpensePathIds, st \in ExpenseStatusEnum,
          n \in {NoNotes, <<"ok">>} : approve_expense(u, id, st, n)
    \/ \E u \in Actors, id \in ExpensePathIds : reimburse_expense(u, id)
    \/ \E u \in Actors, id \in ExpensePathIds, d \in ExpenseUpdates :
          update_expense(u, id, d)
    \/ \E u \in Actors, id \in ExpensePathIds, r \in {Ok, ServerError} :
          delete_expense(u, id, r)
    \/ \E u \in Actors, id \in ExpensePathIds : get_expense(u, id)
    \/ \E u \in Actors : get_expenses(u)

SpecExpense == InitExpense /\ [][NextExpense]_vars

\* --- deletion of expenses of different ages ---
\* The stored expense was submitted on day 0 or on the day before the run.
SeededCreatedAt == {0, StartDay - 1}

InitExpenseDelete ==
    /\ users = SeededUsers
    /\ expenses \in {[e \in ExpenseIds |-> ExpenseRow(3, c)] : c \in SeededCreatedAt}
    /\ tasks = <<>>
    /\ clients = SeededClients
    /\ contacts = <<>>
    /\ quotations = <<>>
    /\ reqs = {}
    /\ now = StartDay
    /\ last = NoRequest
    /\ scope = "expense_delete"

NextExpenseDelete ==
    \/ \E u \in Actors, id \in ExpensePathIds, st \in ExpenseStatusEnum :
          approve_expense(u, id, st, NoNotes)
    \/ \E u \in Actors, id \in ExpensePathIds : reimburse_expense(u, id)
    \/ \E u \in Actors, id \in ExpensePathIds, r \in {Ok, ServerError} :
          delete_expense(u, id, r)

SpecExpenseDelete == InitExpenseDelete /\ [][NextExpenseDelete]_vars

\* --- approvals with notes ---
\* The notes an approval carries: none, or one of two texts
ApprovalNotesInputs == {NoNotes, <<"ok">>, <<"no">>}

\* A manager, an admin, who can set an expense back to submitted, and the
\* deactivated user
NotesActors == {1, 2, 6}

InitExpenseNotes ==
    /\ users = SeededUsers
    /\ expenses = SeededExpenses
    /\ tasks = <<>>
    /\ clients = SeededClients
    /\ contacts = <<>>
    /\ quotations = <<>>
    /\ reqs = {}
    /\ now = StartDay
    /\ last = NoRequest
    /\ scope = "expense_notes"

NextExpenseNotes ==
    \/ \E u \in NotesActors, id \in ExpensePathIds, st \in {"approved", "rejected"},
          n \in ApprovalNotesInputs : approve_expense(u, id, st, n)
    \/ \E u \in NotesActors, id \in ExpensePathIds :
          update_expense(u, id, [status |-> "submitted"])

SpecExpenseNotes == InitExpenseNotes /\ [][NextExpenseNotes]_vars

\* --- approvals running concurrently ---
\* An admin, a manager and an employee send approvals and rejections.
ApprovalActors == {1, 2, 3}

InitExpenseConcurrent ==
    /\ users = SeededUsers
    /\ expenses = SeededExpenses
    /\ tasks = <<>>
    /\ clients = SeededClients
    /\ contacts = <<>>
    /\ quotations = <<>>
    /\ reqs = {}
    /\ now = StartDay
    /\ last = NoRequest
    /\ scope = "expenses_concurrent"

NextExpenseConcurrent ==
    \/ \E u \in ApprovalActors, id \in ExpensePathIds, st \in {"approved", "rejected"},
          slot \in 1..MaxInFlight : approve_expense_query(u, id, st, slot)
    \/ \E r \in reqs : approve_expense_commit(r)

SpecExpenseConcurrent == InitExpenseConcurrent /\ [][NextExpenseConcurrent]_vars

\* --- tasks ---
InitTask ==
    /\ users = SeededUsers
    /\ expenses = <<>>
    /\ tasks = <<>>
    /\ clients = SeededClients
    /\ contacts = <<>>
    /\ quotations = <<>>
    /\ reqs = {}
    /\ now = StartDay
    /\ last = NoRequest
    /\ scope = "tasks"

\* The requests the users of A send to the task handlers
NextTaskBy(A) ==
    \/ \E u \in A, a \in {NoUser, 3, 5, 9}, c \in {NoId, NumClients + 1} :
          create_task(u, a, c)
    \/ \E u \in A, id \in TaskPathIds, d \in TaskUpdates : update_task(u, id, d)
    \/ \E u \in A, id \in TaskPathIds : delete_task(u, id)
    \/ \E u \in A, id \in TaskPathIds, p \in {50, 100} : complete_task(u, id, p)
    \/ \E u \in A, id \in TaskPathIds, a \in {3, 5, 9} : assign_task(u, id, a)
    \/ \E u \in A, id \in TaskPathIds : get_task(u, id)
    \/ \E u \in A, m \in BOOLEAN : get_tasks(u, m)

NextTask == NextTaskBy(Actors)

SpecTask == InitTask /\ [][NextTask]_vars

\* --- completion percentages in and out of range ---
\* The values requests carry for completion_percentage
PercentageInputs == {-1, 0, 50, 100, 101}

\* An employee, who owns the task, and the deactivated user
TaskRangeActors == {3, 6}

InitTaskRange ==
    /\ users = SeededUsers
    /\ expenses = <<>>
    /\ tasks = <<>>
    /\ clients = SeededClients
    /\ contacts = <<>>
    /\ quotations = <<>>
    /\ reqs = {}
    /\ now = StartDay
    /\ last = NoRequest
    /\ scope = "task_range"

NextTaskRange ==
    \/ \E u \in TaskRangeActors : create_task(u, NoUser, NoId)
    \/ \E u \in TaskRangeActors, id \in TaskPathIds, p \in PercentageInputs :
          update_task(u, id, [completion_percentage |-> p])
    \/ \E u \in TaskRangeActors, id \in TaskPathIds, p \in PercentageInputs :
          complete_task(u, id, p)

SpecTaskRange == InitTaskRange /\ [][NextTaskRange]_vars

\* --- contacts ---
\* The contact handlers ask for an active user and no role: an employee
\* and the deactivated user stand for every actor.
ContactActors == {3, 6}

InitContact ==
    /\ users = SeededUsers
    /\ expenses = <<>>
    /\ tasks = <<>>
    /\ clients = SeededClients
    /\ contacts = <<>>
    /\ quotations = <<>>
    /\ reqs = {}
    /\ now = StartDay
    /\ last = NoRequest
    /\ scope = "contacts"

NextContact ==
    \/ \E u \in ContactActors, c \in 1..(NumClients + 1), b \in 1..NumClients,
          p \in BOOLEAN : create_client_contact(u, c, b, p)
    \/ \E u \in ContactActors, c \in 1..(NumClients + 1), k \in 1..(MaxContacts + 1),
          d \in ContactUpdates : update_client_contact(u, c, k, d)
    \/ \E u \in ContactActors, c \in 1..(NumClients + 1), k \in 1..(MaxContacts + 1) :
          delete_client_contact(u, c, k)

SpecContact == InitContact /\ [][NextContact]_vars

\* --- contacts, requests running concurrently ---
\* Every request is about client 1 or a client that does not exist, and
\* every body names the client of its path.
InitContactConcurrent ==
    /\ users = SeededUsers
    /\ expenses = <<>>
    /\ tasks = <<>>
    /\ clients = SeededClients
    /\ contacts = <<>>
    /\ quotations = <<>>
    /\ reqs = {}
    /\ now = StartDay
    /\ last = NoRequest
    /\ scope = "contacts_concurrent"

NextContactConcurrent ==
    \/ \E u \in ContactActors, c \in {1, NumClients + 1}, p \in BOOLEAN :
          create_client_contact_query(u, c, c, p)
    \/ \E r \in reqs : create_client_contact_commit(r)
    \/ \E u \in ContactActors, c \in {1, NumClients + 1}, k \in 1..(MaxContacts + 1) :
          update_client_contact_query(u, c, k, [is_primary |-> TRUE])
    \/ \E r \in reqs : update_client_contact_commit(r)

SpecContactConcurrent == InitContactConcurrent /\ [][NextContactConcurrent]_vars

\* A manager, an employee and the deactivated user stand for the actors of
\* the handlers that ask for a manager or an admin.
QuotationActors == {2, 3, 6}

\* --- status of clients, with the clock moving ---
InitClient ==
    /\ users = SeededUsers
    /\ expenses = <<>>
    /\ tasks = <<>>
    /\ clients = SeededClients
    /\ contacts = <<>>
    /\ quotations = <<>>
    /\ reqs = {}
    /\ now = StartDay
    /\ last = NoRequest
    /\ scope = "clients"

\* The requests about the clients of P, and the clock
NextClientOf(P) ==
    \/ \E u \in QuotationActors, c \in P, d \in ClientUpdates : update_client(u, c, d)
    \/ Tick

NextClient == NextClientOf(1..(NumClients + 1))

SpecClient == InitClient /\ [][NextClient]_vars

\* --- status of a quotation, with the clock moving ---
InitQuotationUpdate ==
    /\ users = SeededUsers
    /\ expenses = <<>>
    /\ tasks = <<>>
    /\ clients = SeededClients
    /\ contacts = <<>>
    /\ quotations = SeededQuotations
    /\ reqs = {}
    /\ now = StartDay
    /\ last = NoRequest
    /\ scope = "quotation_status"

NextQuotationUpdate ==
    \/ \E u \in QuotationActors, c \in 1..NumClients, q \in QuotationIds \cup {2},
          d \in QuotationUpdates : update_client_quotation(u, c, q, d)
    \/ Tick

SpecQuotationUpdate == InitQuotationUpdate /\ [][NextQuotationUpdate]_vars

\* --- quotations, requests running concurrently ---
\* Every body names the client of its path.
InitQuotation ==
    /\ users = SeededUsers
    /\ expenses = <<>>
    /\ tasks = <<>>
    /\ clients = SeededClients
    /\ contacts = <<>>
    /\ quotations = <<>>
    /\ reqs = {}
    /\ now = StartDay
    /\ last = NoRequest
    /\ scope = "quotations"

NextQuotation ==
    \/ \E u \in QuotationActors, c \in 1..(NumClients + 1) :
          create_client_quotation_query(u, c, c)
    \/ \E r \in reqs : create_client_quotation_commit(r)

SpecQuotation == InitQuotation /\ [][NextQuotation]_vars

\* --- the roles the client and quotation handlers ask for ---
\* One user of every role and the deactivated user send the requests; the
\* paths name client 1, the client a request may create and a client that
\* does not exist, and every body names the client of its path.
RoleActors == {1, 2, 3, 4, 6}
RolePathIds == {1, NumClients + 1, NumClients + 2}

InitClientRoles ==
    /\ users = SeededUsers
    /\ expenses = <<>>
    /\ tasks = <<>>
    /\ clients = SeededClients
    /\ contacts = <<>>
    /\ quotations = <<>>
    /\ reqs = {}
    /\ now = StartDay
    /\ last = NoRequest
    /\ scope = "client_roles"

NextClientRoles ==
    \/ \E u \in RoleActors : create_client(u, "pending")
    \/ \E u \in RoleActors, c \in RolePathIds : update_client(u, c, [status |-> "active"])
    \/ \E u \in RoleActors, c \in RolePathIds : delete_client(u, c)
    \/ \E u \in RoleActors, c \in {1, NumClients + 2} : create_client_quotation(u, c, c)
    \/ \E u \in RoleActors, c \in {1, NumClients + 2}, q \in {1, MaxQuotations + 1} :
          update_client_quotation(u, c, q, [status |-> "sent"])

SpecClientRoles == InitClientRoles /\ [][NextClientRoles]_vars

\* The first two of the stored clients
FirstClients == {1, 2}

\* --- deletion of clients that have contacts and quotations ---
\* A manager and an employee send the requests; the body of a contact or of
\* a quotation may name another client than its path.
DeleteClientActors == {2, 3}

InitClientDelete ==
    /\ users = SeededUsers
    /\ expenses = <<>>
    /\ tasks = <<>>
    /\ clients = SeededClients
    /\ contacts = <<>>
    /\ quotations = <<>>
    /\ reqs = {}
    /\ now = StartDay
    /\ last = NoRequest
    /\ scope = "client_delete"

\* The requests about the clients of P, and about a client that does not
\* exist
NextClientDeleteOf(P) ==
    \/ \E c \in P, b \in P : create_client_contact(3, c, b, FALSE)
    \/ \E c \in P, b \in P : create_client_quotation(2, c, b)
    \/ \E u \in DeleteClientActors, c \in P \cup {NumClients + 1} : delete_client(u, c)

NextClientDelete == NextClientDeleteOf(FirstClients)

SpecClientDelete == InitClientDelete /\ [][NextClientDelete]_vars

\* --- quotation requests that carry a version ---
\* JSON bodies with a version of the caller's: every update carries one, a
\* creation may
SuppliedVersion == 9
QuotationCreateBodies(P) ==
    {[client_id |-> c] : c \in P}
       \cup {[client_id |-> c, version |-> SuppliedVersion] : c \in P}
QuotationUpdateBodies ==
    {[version |-> SuppliedVersion], [status |-> "sent", version |-> SuppliedVersion]}

InitQuotationVersion ==
    /\ users = SeededUsers
    /\ expenses = <<>>
    /\ tasks = <<>>
    /\ clients = SeededClients
    /\ contacts = <<>>
    /\ quotations = <<>>
    /\ reqs = {}
    /\ now = StartDay
    /\ last = NoRequest
    /\ scope = "quotation_version"

\* The requests about the clients of P
NextQuotationVersionOf(P) ==
    \/ \E u \in QuotationActors, body \in QuotationCreateBodies(P) :
          create_client_quotation(u, body.client_id, QuotationCreate(body).client_id)
    \/ \E u \in QuotationActors, c \in P, q \in 1..(MaxQuotations + 1),
          body \in QuotationUpdateBodies :
          update_client_quotation(u, c, q, QuotationUpdate(body))

NextQuotationVersion == NextQuotationVersionOf(FirstClients)

SpecQuotationVersion == InitQuotationVersion /\ [][NextQuotationVersion]_vars

\* --- users ---
\* An administrator, an employee and the deactivated administrator send the
\* requests; the paths name the first two and a user that does not exist.
UserActors == {1, 3, 6}
UserPathIds == {1, 3, 9}

InitUser ==
    /\ users = SeededUsers
    /\ expenses = <<>>
    /\ tasks = <<>>
    /\ clients = SeededClients
    /\ contacts = <<>>
    /\ quotations = <<>>
    /\ reqs = {}
    /\ now = StartDay
    /\ last = NoRequest
    /\ scope = "users"

NextUser ==
    \/ \E u \in UserActors, d \in UserUpdates : update_user_me(u, d)
    \/ \E u \in UserActors, k \in UserPathIds : get_user_by_id(u, k)
    \/ \E u \in UserActors, k \in UserPathIds, d \in UserUpdates : update_user(u, k, d)
    \/ \E u \in UserActors, k \in UserPathIds : delete_user(u, k)

SpecUser == InitUser /\ [][NextUser]_vars

\* --- contacts of one client ---
\* The requests of NextContact that are about client 1 or about a client
\* that does not exist, every body naming the client of its path.
NextContactOfOneClient ==
    \/ \E u \in ContactActors, c \in {1, NumClients + 1}, p \in BOOLEAN :
          create_client_contact(u, c, c, p)
    \/ \E u \in ContactActors, c \in {1, NumClients + 1}, k \in 1..(MaxContacts + 1),
          d \in ContactUpdates : update_client_contact(u, c, k, d)
    \/ \E u \in ContactActors, c \in {1, NumClients + 1}, k \in 1..(MaxContacts + 1) :
          delete_client_contact(u, c, k)

\* --- every handler ---
\* A run sends its requests to one group of handlers, the group of one of
\* the specifications above; the handlers of a group write the tables of
\* that group only.  The contact handlers run one request at a time, and
\* they, update_client and the groups that delete clients and number
\* quotations for one client: who is refused, and what a refusal leaves
\* behind, is decided before a handler looks at its rows.
\* The task handlers refuse what an employee asks and nothing another role
\* asks, so the administrator stands for the manager and the finance user
\* there.
TaskRoleActors == {1, 3, 5, 6}

InitAll ==
    \/ InitExpense
    \/ InitExpenseDelete
    \/ InitExpenseNotes
    \/ InitTask
    \/ InitTaskRange
    \/ InitContact
    \/ InitClient
    \/ InitQuotationUpdate
    \/ InitQuotation
    \/ InitUser
    \/ InitClientRoles
    \/ InitExpenseConcurrent
    \/ InitClientDelete
    \/ InitQuotationVersion

NextAll ==
    \/ scope = "expenses" /\ NextExpense
    \/ scope = "expense_delete" /\ NextExpenseDelete
    \/ scope = "expense_notes" /\ NextExpenseNotes
    \/ scope = "tasks" /\ NextTaskBy(TaskRoleActors)
    \/ scope = "task_range" /\ NextTaskRange
    \/ scope = "contacts" /\ NextContactOfOneClient
    \/ scope = "clients" /\ NextClientOf({1, NumClients + 1})
    \/ scope = "quotation_status" /\ NextQuotationUpdate
    \/ scope = "quotations" /\ NextQuotation
    \/ scope = "users" /\ NextUser
    \/ scope = "client_roles" /\ NextClientRoles
    \/ scope = "expenses_concurrent" /\ NextExpenseConcurrent
    \/ scope = "client_delete" /\ NextClientDeleteOf({1})
    \/ scope = "quotation_version" /\ NextQuotationVersionOf({1})

SpecAll == InitAll /\ [][NextAll]_vars

(***************************************************************************)
(* Properties of the expense workflow, checked under SpecExpense.          *)
(***************************************************************************)

\* C2: an expense becomes reimbursed only from approved: no request moves
\* an expense that is submitted or rejected to reimbursed.
C2_ReimbursedOnlyFromApproved ==
    [][\A e \in DOMAIN expenses :
          (expenses'[e].status = "reimbursed" /\ expenses[e].status # "reimbursed")
              => expenses[e].status = "approved"]_vars

\* The role/target combinations that may set the status through update_expense
StatusUpdateAllowed(role, target) ==
    \/ role = "admin"
    \/ role = "manager" /\ target \in {"approved", "rejected"}
    \/ role = "finance" /\ target = "reimbursed"

\* C5: an update_expense request that carries a status succeeds only for
\* admin, for manager with target approved or rejected, or for finance with
\* target reimbursed.
C5_StatusUpdateNeedsRole ==
    (last.op = "update_expense" /\ last.arg # "unset" /\ last.res = Ok)
        => StatusUpdateAllowed(users[last.actor].role, last.arg)

\* C6: after a create_expense request that passes the handler's checks the
\* store holds a new expense of the actor, submitted and without approver.
C6_CreatePersists ==
    (/\ last.op = "create_expense"
     /\ users[last.actor].is_active
     /\ (last.arg = NoId \/ last.arg \in DOMAIN clients))
        => /\ last.res = Ok
           /\ \E e \in DOMAIN expenses \ ExpenseIds :
                 /\ expenses[e].status = "submitted"
                 /\ expenses[e].submitter_id = last.actor
                 /\ expenses[e].approver_id = NoUser

\* C7: approve succeeds only for an admin or manager on a submitted
\* expense; an admin or manager who calls it on an expense in another
\* status gets the state-conflict response, which is not the
\* insufficient-role response, and the expense is unchanged.
C7_ApproveNeedsSubmitted ==
    [][last'.op = "approve_expense" =>
          LET u == last'.actor
              id == last'.id
          IN /\ last'.res = Ok =>
                   /\ users[u].role \in {"admin", "manager"}
                   /\ id \in DOMAIN expenses
                   /\ expenses[id].status = "submitted"
             /\ (/\ users[u].is_active
                 /\ users[u].role \in {"admin", "manager"}
                 /\ id \in DOMAIN expenses
                 /\ expenses[id].status # "submitted") =>
                   /\ last'.res = StateConflict
                   /\ last'.res.code # NotEnoughPrivileges.code
                   /\ expenses' = expenses]_vars

\* A manager was answered the state conflict on an expense already decided
C7_Witness ==
    /\ last.op = "approve_expense"
    /\ last.res = StateConflict
    /\ users[last.actor].role = "manager"
    /\ last.id \in DOMAIN expenses
    /\ expenses[last.id].status = "rejected"

\* C8: reimburse on an expense that is not approved never succeeds and
\* leaves the expense (status, reimburser_id, reimbursed_at) as it was; the
\* actor who passes the role gate is answered the state conflict.
C8_ReimburseNeedsApproved ==
    [][(/\ last'.op = "reimburse_expense"
        /\ last'.id \in DOMAIN expenses
        /\ expenses[last'.id].status # "approved") =>
          /\ last'.res # Ok
          /\ expenses'[last'.id].status = expenses[last'.id].status
          /\ expenses'[last'.id].reimburser_id = expenses[last'.id].reimburser_id
          /\ expenses'[last'.id].reimbursed_at = expenses[last'.id].reimbursed_at
          /\ get_current_finance_admin_or_admin_user(last'.actor) = Ok
                => last'.res = StateConflict]_vars

\* A second reimburse call on a reimbursed expense was answered the conflict
C8_Witness ==
    /\ last.op = "reimburse_expense"
    /\ last.res = StateConflict
    /\ last.id \in DOMAIN expenses
    /\ expenses[last.id].status = "reimbursed"
    /\ expenses[last.id].reimburser_id = 4

\* C9: the reimburse action succeeds only for an admin or finance actor.
C9_ReimburseRoles ==
    (last.op = "reimburse_expense" /\ last.res = Ok)
        => users[last.actor].role \in {"admin", "finance"}

\* A manager asked to reimburse an approved expense and was refused
C9_Witness ==
    /\ last.op = "reimburse_expense"
    /\ users[last.actor].role = "manager"
    /\ last.res = NotEnoughPrivileges
    /\ last.id \in DOMAIN expenses
    /\ expenses[last.id].status = "approved"

\* C18: once approver_id/approved_at of an expense is set no later request
\* changes it, and likewise reimburser_id/reimbursed_at: each pair is set at
\* most once in the life of the expense.
C18_StampsSetOnce ==
    [][\A e \in DOMAIN expenses :
          /\ expenses[e].approver_id # NoUser =>
                /\ expenses'[e].approver_id = expenses[e].approver_id
                /\ expenses'[e].approved_at = expenses[e].approved_at
          /\ expenses[e].reimburser_id # NoUser =>
                /\ expenses'[e].reimburser_id = expenses[e].reimburser_id
                /\ expenses'[e].reimbursed_at = expenses[e].reimbursed_at]_vars

\* C19: when a manager or an admin calls approve with status approved on a
\* submitted expense, the request succeeds and the expense then has status
\* approved, the caller as approver_id and approved_at set.
C19_ApproveStamps ==
    [][(/\ last'.op = "approve_expense"
        /\ last'.arg = "approved"
        /\ last'.id \in DOMAIN expenses
        /\ expenses[last'.id].status = "submitted"
        /\ get_current_manager_or_admin_user(last'.actor) = Ok) =>
          /\ last'.res = Ok
          /\ expenses'[last'.id].status = "approved"
          /\ expenses'[last'.id].approver_id = last'.actor
          /\ expenses'[last'.id].approved_at = now
          /\ expenses'[last'.id].approved_at # NoTime]_vars

\* The manager has approved the expense
C19_Witness ==
    /\ last.op = "approve_expense"
    /\ last.arg = "approved"
    /\ last.res = Ok
    /\ users[last.actor].role = "manager"
    /\ expenses[last.id].status = "approved"
    /\ expenses[last.id].approver_id = last.actor

\* C20: when a finance actor or an admin calls reimburse on an approved
\* expense, the request succeeds and the expense then has status reimbursed,
\* the caller as reimburser_id and reimbursed_at set, and its approver_id and
\* approved_at are the ones it had.
C20_ReimburseStamps ==
    [][(/\ last'.op = "reimburse_expense"
        /\ last'.id \in DOMAIN expenses
        /\ expenses[last'.id].status = "approved"
        /\ get_current_finance_admin_or_admin_user(last'.actor) = Ok) =>
          /\ last'.res = Ok
          /\ expenses'[last'.id].status = "reimbursed"
          /\ expenses'[last'.id].reimburser_id = last'.actor
          /\ expenses'[last'.id].reimbursed_at = now
          /\ expenses'[last'.id].reimbursed_at # NoTime
          /\ expenses'[last'.id].approver_id = expenses[last'.id].approver_id
          /\ expenses'[last'.id].approved_at = expenses[last'.id].approved_at]_vars

\* The finance actor has reimbursed an expense a manager had approved
C20_Witness ==
    /\ last.op = "reimburse_expense"
    /\ last.res = Ok
    /\ users[last.actor].role = "finance"
    /\ expenses[last.id].status = "reimbursed"
    /\ expenses[last.id].reimburser_id = last.actor
    /\ expenses[last.id].approver_id = 2

\* C22: in every reachable state an approved expense has approver_id and
\* approved_at set, and a reimbursed expense has reimburser_id and
\* reimbursed_at set as well as approver_id and approved_at.
C22_StatusImpliesStamps ==
    \A e \in DOMAIN expenses :
        /\ expenses[e].status \in {"approved", "reimbursed"} =>
              /\ expenses[e].approver_id # NoUser
              /\ expenses[e].approved_at # NoTime
        /\ expenses[e].status = "reimbursed" =>
              /\ expenses[e].reimburser_id # NoUser
              /\ expenses[e].reimbursed_at # NoTime

\* C28: an employee reads an expense (get_expense, get_expenses) or updates
\* it (update_expense) only if they are its submitter: for any other expense
\* the request is denied, or the expense is absent from the list, and the
\* expenses are unchanged.
C28_EmployeeOwnExpensesOnly ==
    [][users[last'.actor].role = "employee" =>
          /\ (/\ last'.op \in {"get_expense", "update_expense"}
              /\ last'.id \in DOMAIN expenses
              /\ expenses[last'.id].submitter_id # last'.actor) =>
                /\ last'.res # Ok
                /\ expenses' = expenses
          /\ last'.op = "get_expenses" =>
                /\ \A e \in last'.arg : expenses[e].submitter_id = last'.actor
                /\ expenses' = expenses]_vars

\* An employee asked to update the expense of a colleague and was refused
C28_Witness ==
    /\ last.op = "update_expense"
    /\ last.id \in DOMAIN expenses
    /\ users[last.actor].role = "employee"
    /\ expenses[last.id].submitter_id # last.actor
    /\ last.res = Forbidden

(***************************************************************************)
(* Properties of delete_expense, checked under SpecExpenseDelete.          *)
(***************************************************************************)
\* C12: delete_expense of a stored expense by an active actor is denied
\* exactly when the actor is an employee and the expense is not their own
\* submitted one, a manager and the expense is reimbursed, or a finance
\* actor and the expense was created less than 14 days ago; an admin is
\* never denied.
C12_DeleteDenials ==
    (/\ last.op = "delete_expense"
     /\ last.id \in DOMAIN expenses
     /\ get_current_active_user(last.actor) = Ok) =>
       LET row == expenses[last.id]
           role == users[last.actor].role
       IN (last.res = Forbidden) <=>
            \/ role = "employee"
                 /\ ~(row.submitter_id = last.actor /\ row.status = "submitted")
            \/ role = "manager" /\ row.status = "reimbursed"
            \/ role = "finance" /\ now - row.created_at < DeleteAgeDays

\* A finance actor was denied the deletion of an expense of yesterday
C12_Witness ==
    /\ last.op = "delete_expense"
    /\ last.id \in DOMAIN expenses
    /\ users[last.actor].role = "finance"
    /\ now - expenses[last.id].created_at < DeleteAgeDays
    /\ last.res = Forbidden

\* C13: after a delete_expense request that passed the authorisation rules
\* the expense is no longer stored.
C13_DeletedIsGone ==
    (/\ last.op = "delete_expense"
     /\ last.res \notin {InactiveUser, NotFound, Forbidden}) =>
       last.id \notin DOMAIN expenses

(***************************************************************************)
(* Properties of the approval notes, checked under SpecExpenseNotes.       *)
(***************************************************************************)
IsPrefix(a, b) == Len(a) <= Len(b) /\ SubSeq(b, 1, Len(a)) = a
IsSuffix(a, b) == Len(a) <= Len(b) /\ SubSeq(b, Len(b) - Len(a) + 1, Len(b)) = a

\* C26: after a successful approve the notes of the expense start with the
\* notes it had; when the approval carried notes they come after the
\* previous text, and when the expense had no notes the result is the notes
\* of the approval.
C26_NotesAppended ==
    [][(/\ last'.op = "approve_expense"
        /\ last'.res = Ok
        /\ last'.id \in DOMAIN expenses) =>
          LET old == expenses[last'.id].notes
              new == expenses'[last'.id].notes
          IN /\ IsPrefix(old, new)
             /\ old = NoNotes => new \in ApprovalNotesInputs
             /\ new # old =>
                   \E n \in ApprovalNotesInputs \ {NoNotes} :
                       /\ IsSuffix(n, new)
                       /\ Len(new) >= Len(old) + Len(n)]_vars

\* An approval with notes was applied to an expense that had notes
C26_Witness ==
    /\ last.op = "approve_expense"
    /\ last.res = Ok
    /\ Len(expenses[last.id].notes) = 3
    /\ IsPrefix(<<"ok">>, expenses[last.id].notes)
    /\ IsSuffix(<<"no">>, expenses[last.id].notes)

(***************************************************************************)
(* Properties of the task workflow, checked under SpecTask.                *)
(***************************************************************************)

\* C3: right after a successful update_task, complete_task or assign_task
\* the task has completion_percentage = 100 exactly if its status is
\* completed.
C3_PercentageMatchesStatus ==
    (/\ last.op \in {"update_task", "complete_task", "assign_task"}
     /\ last.res = Ok)
        => (tasks[last.id].completion_percentage = 100
               <=> tasks[last.id].status = "completed")

\* C10 as stated: delete_task removes a task only for its owner, an admin
\* or a manager; a finance or employee actor who is not the owner is denied
\* and the task stays.
C10_DeleteOwnerAdminManager ==
    [][(last'.op = "delete_task" /\ last'.id \in DOMAIN tasks) =>
          LET u == last'.actor
              id == last'.id
          IN /\ id \notin DOMAIN tasks' =>
                   \/ tasks[id].owner_id = u
                   \/ users[u].role \in {"admin", "manager"}
             /\ (users[u].role \in {"finance", "employee"} /\ tasks[id].owner_id # u) =>
                   /\ last'.res # Ok
                   /\ tasks' = tasks]_vars

\* C10 as the code has it: delete_task removes a task only for its owner
\* or an admin, manager or finance actor; an employee who is not the owner
\* is denied and the task stays.
C10_DeleteOwnerOrNotEmployee ==
    [][(last'.op = "delete_task" /\ last'.id \in DOMAIN tasks) =>
          LET u == last'.actor
              id == last'.id
          IN /\ id \notin DOMAIN tasks' =>
                   \/ tasks[id].owner_id = u
                   \/ users[u].role \in {"admin", "manager", "finance"}
             /\ (users[u].role = "employee" /\ tasks[id].owner_id # u) =>
                   /\ last'.res = Forbidden
                   /\ tasks' = tasks]_vars

\* An employee who is the assignee but not the owner was refused the delete
C10_Witness ==
    /\ last.op = "delete_task"
    /\ last.res = Forbidden
    /\ last.id \in DOMAIN tasks
    /\ users[last.actor].role = "employee"
    /\ tasks[last.id].owner_id # last.actor
    /\ tasks[last.id].assignee_id = last.actor

\* C11: a create_task, update_task or assign_task request of an employee
\* never leaves a task assigned to a user other than that employee: a request
\* that names another assignee is denied and the tasks are unchanged.  An
\* active admin, manager or finance actor assigns an existing task to any
\* existing user.
AssigningOps == {"create_task", "update_task", "assign_task"}

C11_EmployeeAssignsSelfOnly ==
    [][/\ (/\ last'.op \in AssigningOps
           /\ users[last'.actor].role = "employee") =>
             /\ \A t \in DOMAIN tasks' :
                   (t \notin DOMAIN tasks
                      \/ tasks'[t].assignee_id # tasks[t].assignee_id)
                     => tasks'[t].assignee_id \in {NoUser, last'.actor}
             /\ last'.arg \notin {NoUser, last'.actor} =>
                   /\ last'.res # Ok
                   /\ tasks' = tasks
       /\ (/\ last'.op = "assign_task"
           /\ get_current_active_user(last'.actor) = Ok
           /\ users[last'.actor].role \in {"admin", "manager", "finance"}
           /\ last'.id \in DOMAIN tasks
           /\ last'.arg \in DOMAIN users) =>
             /\ last'.res = Ok
             /\ tasks'[last'.id].assignee_id = last'.arg]_vars

\* The owner of a task, an employee, asked to assign it to a colleague
C11_Witness ==
    /\ last.op = "assign_task"
    /\ last.actor = 3
    /\ last.arg = 5
    /\ last.id \in DOMAIN tasks
    /\ tasks[last.id].owner_id = 3
    /\ last.res = Forbidden

\* C23: a successful assign_task or update_task that gives a pending task
\* its first assignee leaves the task in_progress.
C23_FirstAssigneeStartsTask ==
    [][(/\ last'.op \in {"assign_task", "update_task"}
        /\ last'.res = Ok
        /\ last'.id \in DOMAIN tasks
        /\ tasks[last'.id].status = "pending"
        /\ tasks[last'.id].assignee_id = NoUser
        /\ tasks'[last'.id].assignee_id # NoUser) =>
          tasks'[last'.id].status = "in_progress"]_vars

\* C24: in every reachable state completed_at of a task is set if and only
\* if the status of the task is completed.
C24_CompletedAtIffCompleted ==
    \A t \in DOMAIN tasks :
        (tasks[t].completed_at # NoTime) <=> (tasks[t].status = "completed")

\* C25 (SpecTaskRange): every stored task has a completion_percentage
\* between 0 and 100 inclusive.
C25_PercentageInRange ==
    \A t \in DOMAIN tasks : tasks[t].completion_percentage \in 0..100

\* C27: an employee obtains a task through get_task or get_tasks only if
\* they are its owner or its assignee; an active manager, finance actor or
\* admin is given every task they ask for.
C27_EmployeeReadsOwnTasks ==
    /\ (last.op = "get_task" /\ last.id \in DOMAIN tasks) =>
          LET t == tasks[last.id]
              role == users[last.actor].role
          IN /\ (role = "employee" /\ last.res = Ok) =>
                   (t.owner_id = last.actor \/ t.assignee_id = last.actor)
             /\ (role # "employee" /\ get_current_active_user(last.actor) = Ok) =>
                   last.res = Ok
    /\ last.op = "get_tasks" =>
          LET role == users[last.actor].role
          IN /\ role = "employee" =>
                   \A t \in last.arg.result :
                       tasks[t].owner_id = last.actor \/ tasks[t].assignee_id = last.actor
             /\ (/\ role # "employee"
                 /\ get_current_active_user(last.actor) = Ok
                 /\ ~last.arg.assigned_to_me) => last.arg.result = DOMAIN tasks

\* An employee asked for a task of a colleague and was refused
C27_Witness ==
    /\ last.op = "get_task"
    /\ last.id \in DOMAIN tasks
    /\ users[last.actor].role = "employee"
    /\ tasks[last.id].owner_id # last.actor
    /\ tasks[last.id].assignee_id # last.actor
    /\ last.res = Forbidden

(***************************************************************************)
(* Properties of the contacts of a client, checked under SpecContact.      *)
(***************************************************************************)
PrimaryContacts(c) ==
    {k \in DOMAIN contacts : contacts[k].client_id = c /\ contacts[k].is_primary}

\* C1: after any sequence of successful contact requests every client has
\* at most one primary contact, and a contact created as primary is then
\* the only primary contact of its client.
C1_AtMostOnePrimary ==
    /\ \A c \in DOMAIN clients : Cardinality(PrimaryContacts(c)) <= 1
    /\ (/\ last.op = "create_client_contact"
        /\ last.res = Ok
        /\ contacts[last.id].is_primary)
          => PrimaryContacts(contacts[last.id].client_id) = {last.id}

(***************************************************************************)
(* Contacts with requests in flight, checked under SpecContactConcurrent.  *)
(***************************************************************************)
\* C14: whatever the interleaving of the queries and the commits of
\* requests that make a contact of a client primary, no two contacts stored
\* for the same client are primary.
C14_NoTwoPrimariesWhenRacing ==
    \A k1, k2 \in DOMAIN contacts :
        (/\ contacts[k1].is_primary
         /\ contacts[k2].is_primary
         /\ contacts[k1].client_id = contacts[k2].client_id) => k1 = k2

(***************************************************************************)
(* Properties of the quotations of a client, checked under SpecQuotation.  *)
(***************************************************************************)
QuotationsOf(c) == {q \in DOMAIN quotations : quotations[q].client_id = c}

\* C4: the versions of the quotations of a client are 1, 2, 3, ... in
\* creation order, without gap or duplicate, also when two requests for
\* the same client interleave their query and their insert.
C4_VersionsDense ==
    \A c \in DOMAIN clients :
        /\ {quotations[q].version : q \in QuotationsOf(c)} = 1..Cardinality(QuotationsOf(c))
        /\ \A q1, q2 \in QuotationsOf(c) :
              q1 < q2 => quotations[q1].version < quotations[q2].version

(***************************************************************************)
(* Properties of the timestamps, checked with the clock moving.            *)
(***************************************************************************)
\* C16 (SpecClient): onboarded_at of a client is stamped by the update_client
\* that first moves the client into active, and once it is set no later
\* request changes it.
C16_OnboardedAtStampedOnce ==
    [][\A c \in DOMAIN clients :
          /\ (/\ clients[c].onboarded_at = NoTime
              /\ clients[c].status # "active"
              /\ clients'[c].status = "active") => clients'[c].onboarded_at = now
          /\ clients[c].onboarded_at # NoTime =>
                clients'[c].onboarded_at = clients[c].onboarded_at]_vars

\* C17 (SpecQuotationUpdate): sent_at of a quotation is stamped by the
\* update_client_quotation that first moves it into sent, and once it is set
\* no later status update changes it.
C17_SentAtStampedOnce ==
    [][\A q \in DOMAIN quotations :
          /\ (/\ quotations[q].sent_at = NoTime
              /\ quotations[q].status # "sent"
              /\ quotations'[q].status = "sent") => quotations'[q].sent_at = now
          /\ quotations[q].sent_at # NoTime =>
                quotations'[q].sent_at = quotations[q].sent_at]_vars

\* The status changes of a quotation the life cycle allows
QuotationEdges == {<<"draft", "sent">>, <<"sent", "accepted">>, <<"sent", "rejected">>}

\* C21 (SpecQuotationUpdate): update_client_quotation changes the status of
\* a quotation along the edges draft to sent, sent to accepted and sent to
\* rejected only; a request for any other change leaves the quotation as it
\* was.
C21_QuotationEdgesOnly ==
    [][\A q \in DOMAIN quotations :
          quotations'[q].status # quotations[q].status =>
             <<quotations[q].status, quotations'[q].status>> \in QuotationEdges]_vars

(***************************************************************************)
(* Properties of every handler, checked under SpecAll.                     *)
(***************************************************************************)
\* The responses of a request that is denied: the account is deactivated,
\* the role is insufficient, the actor is not the owner, the entity is not
\* found, or the entity is in a state the operation does not accept.
Denials == {InactiveUser, NotEnoughPrivileges, Forbidden, NotFound, StateConflict}

\* C15: a request that ends in a denial leaves every row of every table as
\* it was before the request.
C15_DenialLeavesStore ==
    [][last'.res \in Denials =>
          /\ users' = users
          /\ expenses' = expenses
          /\ tasks' = tasks
          /\ clients' = clients
          /\ contacts' = contacts
          /\ quotations' = quotations]_vars

\* A manager was refused a status by update_expense on an approved expense
C15_Witness ==
    /\ last.op = "update_expense"
    /\ users[last.actor].role = "manager"
    /\ last.res = Forbidden
    /\ last.id \in DOMAIN expenses
    /\ expenses[last.id].status = "approved"

C30_InactiveAlwaysDenied ==
    [][(/\ last'.actor \in DOMAIN users
        /\ ~users[last'.actor].is_active) =>
          /\ last'.res = InactiveUser
          /\ users' = users
          /\ expenses' = expenses
          /\ tasks' = tasks
          /\ clients' = clients
          /\ contacts' = contacts
          /\ quotations' = quotations]_vars

\* The deactivated administrator asked to approve the stored expense
C30_Witness ==
    /\ last.op = "approve_expense"
    /\ last.id \in DOMAIN expenses
    /\ users[last.actor].role = "admin"
    /\ ~users[last.actor].is_active
    /\ last.res = InactiveUser

(***************************************************************************)
(* Further properties of the expense workflow, checked under SpecExpense.  *)
(***************************************************************************)
\* C37: after a successful approve request the expense is approved or
\* rejected, whatever status the request carries.
C37_ApproveDecides ==
    [][(last'.op = "approve_expense" /\ last'.res = Ok) =>
          expenses'[last'.id].status \in {"approved", "rejected"}]_vars

\* C39: once an expense has left the status submitted, every update_expense
\* request of an employee, its submitter included, is denied and no field of
\* the expense changes.
C39_EmployeeUpdatesSubmittedOnly ==
    [][(/\ last'.op = "update_expense"
        /\ last'.actor \in DOMAIN users
        /\ users[last'.actor].role = "employee"
        /\ last'.id \in DOMAIN expenses
        /\ expenses[last'.id].status # "submitted") =>
          /\ last'.res \in {Forbidden, InactiveUser}
          /\ expenses' = expenses]_vars

\* The submitter of an approved expense asked to update it and was refused.
C39_Witness ==
    /\ last.op = "update_expense"
    /\ last.res = Forbidden
    /\ last.id \in DOMAIN expenses
    /\ expenses[last.id].submitter_id = last.actor
    /\ users[last.actor].role = "employee"
    /\ expenses[last.id].status = "approved"
    /\ expenses[last.id].approver_id = 2

(***************************************************************************)
(* Properties of approvals that run concurrently, checked under            *)
(* SpecExpenseConcurrent.                                                  *)
(***************************************************************************)
\* C36: of two approve requests that have both loaded the same submitted
\* expense, at most one succeeds: a request that succeeds commits over an
\* expense that is still submitted, and never over the decision of the other.
C36_OneApprovalWins ==
    [][(last'.op = "approve_expense" /\ last'.res = Ok) =>
          expenses[last'.id].status = "submitted"]_vars

(***************************************************************************)
(* Properties of the user handlers, checked under SpecUser.                *)
(***************************************************************************)
\* C31: delete_user called by an actor on their own user record is denied,
\* whatever the role of the actor, and the record stays as it is.
C31_SelfDeleteDenied ==
    [][(last'.op = "delete_user" /\ last'.actor = last'.id) =>
          /\ last'.res # Ok
          /\ users' = users]_vars

\* An active administrator has asked to delete their own account and was
\* refused at the check of the account.
C31_Witness ==
    /\ last.op = "delete_user"
    /\ last.actor = last.id
    /\ last.actor \in DOMAIN users
    /\ users[last.actor].is_active
    /\ users[last.actor].role = "admin"
    /\ last.res = SelfDelete

\* C35: no request of an actor who is not an admin changes the role or the
\* is_active flag of a user record, the actor's own included.
C35_OnlyAdminChangesRoles ==
    [][(last'.actor \in DOMAIN users /\ users[last'.actor].role # "admin") =>
          \A k \in DOMAIN users :
             /\ k \in DOMAIN users'
             /\ users'[k].role = users[k].role
             /\ users'[k].is_active = users[k].is_active]_vars

(***************************************************************************)
(* Properties of the client and quotation handlers, checked under          *)
(* SpecClientRoles.                                                        *)
(***************************************************************************)
ClientWriteOps ==
    {"create_client", "update_client", "delete_client",
     "create_client_quotation", "update_client_quotation"}

\* C32: create_client, update_client, delete_client, create_client_quotation
\* and update_client_quotation succeed only for an admin or a manager; the
\* request of an employee or of a finance user is denied, and no client and
\* no quotation is created, changed or removed.
C32_ClientWritesNeedManagerOrAdmin ==
    [][(last'.op \in ClientWriteOps /\ last'.actor \in DOMAIN users) =>
          /\ last'.res = Ok => users[last'.actor].role \in {"admin", "manager"}
          /\ users[last'.actor].role \in {"employee", "finance"} =>
                /\ last'.res = NotEnoughPrivileges
                /\ clients' = clients
                /\ quotations' = quotations]_vars

\* A finance user was refused the deletion of a stored client that has a
\* quotation, after a manager created that quotation.
C32_Witness ==
    /\ last.op = "delete_client"
    /\ users[last.actor].role = "finance"
    /\ last.res = NotEnoughPrivileges
    /\ last.id \in DOMAIN clients
    /\ \E q \in DOMAIN quotations : quotations[q].client_id = last.id

(***************************************************************************)
(* Properties of the version of a quotation, checked under                 *)
(* SpecQuotationVersion.                                                   *)
(***************************************************************************)
\* C33: the version of a quotation is assigned by create_client_quotation
\* and never taken from the caller: a new quotation gets the latest version
\* of the client of its path plus one whatever version its body carries,
\* and the version of a stored quotation is the same after every request.
C33_VersionEngineOwned ==
    [][/\ \A q \in DOMAIN quotations :
             q \in DOMAIN quotations' /\ quotations'[q].version = quotations[q].version
       /\ \A q \in DOMAIN quotations' \ DOMAIN quotations :
             /\ last'.op = "create_client_quotation"
             /\ quotations'[q].version = LatestVersion(last'.arg) + 1]_vars

\* An update that carried a version and a new status was applied to a
\* quotation: the status is the one asked for, the version is not
C33_Witness ==
    /\ last.op = "update_client_quotation"
    /\ last.res = Ok
    /\ last.arg = "sent"
    /\ last.id \in DOMAIN quotations
    /\ quotations[last.id].status = "sent"
    /\ quotations[last.id].version # SuppliedVersion
    /\ \E q \in DOMAIN quotations : quotations[q].version = 2

(***************************************************************************)
(* Properties of the deletion of a client, checked under SpecClientDelete. *)
(***************************************************************************)
\* C34: after a successful delete_client of a client, the client is gone
\* and no contact and no quotation with its client_id is left in the store.
C34_DeleteClientCascades ==
    [][(last'.op = "delete_client" /\ last'.res = Ok) =>
          /\ last'.id \notin DOMAIN clients'
          /\ \A k \in DOMAIN contacts' : contacts'[k].client_id # last'.id
          /\ \A q \in DOMAIN quotations' : quotations'[q].client_id # last'.id]_vars

\* A client was deleted and took its contact 1 and its quotation 1 with it:
\* the rows created after them, of the other client, are still stored.
C34_Witness ==
    /\ last.op = "delete_client"
    /\ last.res = Ok
    /\ 1 \notin DOMAIN contacts /\ 2 \in DOMAIN contacts
    /\ 1 \notin DOMAIN quotations /\ 2 \in DOMAIN quotations

\* C38: a contact or a quotation created through the endpoint of a client
\* is stored with the client_id of that client.
C38_StoredUnderPathClient ==
    [][/\ (last'.op = "create_client_contact" /\ last'.res = Ok) =>
             contacts'[last'.id].client_id = last'.arg
       /\ (last'.op = "create_client_quotation" /\ last'.res = Ok) =>
             quotations'[last'.id].client_id = last'.arg]_vars

====
